---- MODULE Spec2Model ----
(***************************************************************************)
(* Payment webhooks and subscription ledger of the Mentorium bot.          *)
(*                                                                         *)
(* Python strings are modelled as sequences of atoms (an atom is a chunk   *)
(* of characters that no operation of the program splits further, except   *)
(* the separators " " and ":" which are atoms of their own).  Python None  *)
(* is the sentinel None.                                                    *)
(***************************************************************************)
EXTENDS Integers, Sequences, FiniteSets, TLC

VARIABLES
    settings,       \* provider credentials the BillingService is built from
    now,            \* datetime.utcnow(), in ticks
    subscriptions,  \* committed rows of table subscriptions, by id
    payments,       \* committed rows of table payments, by id
    calls           \* the requests in flight or answered, by slot

vars == <<settings, now, subscriptions, payments, calls>>

-----------------------------------------------------------------------------
(* Bounds *)

MaxCalls == 2
MaxSubscriptions == 2
MaxPayments == 1
MaxNow == 2

-----------------------------------------------------------------------------
(* Python values *)

None == <<"<None>">>

\* No value yet
NoValue == [none |-> TRUE]

\* A bool and an int as the value a call returns
Bool(b) == [bool |-> b]
Count(n) == [int |-> n]

\* bool(s) of an optional string
Truthy(s) == s # None /\ s # <<>>

\* str(n) of a small integer
IntStr(n) == <<ToString(n)>>

\* f"{v}" of an optional string
Fmt(v) == IF v = None THEN <<"None">> ELSE v

\* dict.get(key) and dict.get(key, default)
Get(d, k) == IF k \in DOMAIN d THEN d[k] ELSE None
GetOr(d, k, default) == IF k \in DOMAIN d THEN d[k] ELSE default

RECURSIVE SplitFrom(_, _, _)
\* s.split(sep) for a one-atom separator: cur is the piece being read
SplitFrom(s, sep, cur) ==
    IF s = <<>> THEN <<cur>>
    ELSE IF Head(s) = sep THEN <<cur>> \o SplitFrom(Tail(s), sep, <<>>)
    ELSE SplitFrom(Tail(s), sep, Append(cur, Head(s)))

Split(s, sep) == SplitFrom(s, sep, <<>>)

\* str.lower() on the atoms an authorization scheme is written with
LowerAtom(a) ==
    CASE a = "Basic" -> "basic"
      [] a = "BASIC" -> "basic"
      [] a = "Bearer" -> "bearer"
      [] OTHER -> a

Lower(s) == [i \in 1..Len(s) |-> LowerAtom(s[i])]

\* base64.b64encode(s.encode()).decode(): an injective encoding without spaces
B64Encode(s) == <<"b64(">> \o s \o <<")">>

IsB64(s) == Len(s) >= 2 /\ s[1] = "b64(" /\ s[Len(s)] = ")"

\* base64.b64decode(s).decode() where IsB64(s)
B64Decode(s) == SubSeq(s, 2, Len(s) - 1)

\* hashlib.md5(data.encode()).hexdigest(): collision-free on the bounded inputs
Md5Hex(data) == <<"md5(">> \o data \o <<")">>

-----------------------------------------------------------------------------
(* PayMe provider: services/payment/payme.py *)

\* PayMeProvider.__init__: the provider object
PayMeProvider(merchant_id, secret_key) ==
    [merchant_id |-> merchant_id,
     secret_key |-> secret_key,
     enabled |-> Truthy(merchant_id) /\ Truthy(secret_key)]

\* PayMeProvider.is_available
PayMeIsAvailable(p) == p.enabled

\* PayMeProvider.verify_webhook_signature; every exception inside gives False
PayMeVerifyWebhookSignature(p, auth_header) ==
    IF ~p.enabled THEN FALSE
    ELSE LET parts == Split(auth_header, " ") IN
         IF Len(parts) # 2 THEN FALSE                       \* unpacking fails
         ELSE IF Lower(parts[1]) # <<"basic">> THEN FALSE
         ELSE IF ~IsB64(parts[2]) THEN FALSE                 \* b64decode or decode fails
         ELSE LET up == Split(B64Decode(parts[2]), ":") IN
              IF Len(up) # 2 THEN FALSE                      \* unpacking fails
              ELSE up[1] = <<"Paycom">> /\ up[2] = p.secret_key

PayMeCheckPerformTransaction(params) == [result |-> [allow |-> TRUE]]

PayMeCreateTransaction(params) ==
    [result |-> [create_time |-> 1234567890, transaction |-> <<"1">>, state |-> 1]]

PayMePerformTransaction(params) ==
    [result |-> [perform_time |-> 1234567890, transaction |-> <<"1">>, state |-> 2]]

PayMeCancelTransaction(params) ==
    [result |-> [cancel_time |-> 1234567890, transaction |-> <<"1">>, state |-> -1]]

PayMeCheckTransaction(params) ==
    [result |-> [create_time |-> 1234567890, transaction |-> <<"1">>, state |-> 2]]

\* PayMeHandleWebhook answering an unknown method as an invalid request
PayMeHandleWebhookInvalidRequest(p, payload) ==
    IF ~p.enabled THEN [error |-> [code |-> -32400, message |-> "Provider disabled"]]
    ELSE LET method == Get(payload, "method")
             params == GetOr(payload, "params", [empty |-> TRUE])
         IN  CASE method = <<"CheckPerformTransaction">> -> PayMeCheckPerformTransaction(params)
               [] method = <<"CreateTransaction">> -> PayMeCreateTransaction(params)
               [] method = <<"PerformTransaction">> -> PayMePerformTransaction(params)
               [] method = <<"CancelTransaction">> -> PayMeCancelTransaction(params)
               [] method = <<"CheckTransaction">> -> PayMeCheckTransaction(params)
               [] method = None -> [error |-> [code |-> -32600, message |-> "Invalid Request"]]
               [] OTHER -> [error |-> [code |-> -32601, message |-> "Method not found"]]

\* PayMeProvider.handle_webhook on a payload that is a dict
PayMeHandleWebhook(p, payload) ==
    IF ~p.enabled THEN [error |-> [code |-> -32400, message |-> "Provider disabled"]]
    ELSE LET method == Get(payload, "method")
             params == GetOr(payload, "params", [empty |-> TRUE])
         IN  CASE method = <<"CheckPerformTransaction">> -> PayMeCheckPerformTransaction(params)
               [] method = <<"CreateTransaction">> -> PayMeCreateTransaction(params)
               [] method = <<"PerformTransaction">> -> PayMePerformTransaction(params)
               [] method = <<"CancelTransaction">> -> PayMeCancelTransaction(params)
               [] method = <<"CheckTransaction">> -> PayMeCheckTransaction(params)
               [] OTHER -> [error |-> [code |-> -32601, message |-> "Method not found"]]

-----------------------------------------------------------------------------
(* Click provider: services/payment/click.py *)

\* A Python int among the values of a dict whose other values are strings
PyInt(n) == <<"<int>", ToString(n)>>

\* ClickProvider.__init__: the provider object
ClickProvider(merchant_id, service_id, secret_key) ==
    [merchant_id |-> merchant_id,
     service_id |-> service_id,
     secret_key |-> secret_key,
     enabled |-> Truthy(merchant_id) /\ Truthy(service_id) /\ Truthy(secret_key)]

\* ClickProvider.is_available
ClickIsAvailable(p) == p.enabled

\* ClickProvider.verify_webhook_signature accepting a request that carries no signature
ClickVerifyUnlessUnsigned(p, click_trans_id, service_id, order_id, merchant_trans_id, amount, action, sign_time, sign_string) ==
    IF ~p.enabled THEN FALSE
    ELSE LET data == Fmt(click_trans_id) \o Fmt(service_id) \o Fmt(p.secret_key)
                     \o Fmt(order_id) \o Fmt(amount) \o Fmt(action) \o Fmt(sign_time)
         IN  ~Truthy(sign_string) \/ Md5Hex(data) = sign_string

\* ClickProvider.verify_webhook_signature
ClickVerifyWebhookSignature(p, click_trans_id, service_id, order_id, merchant_trans_id, amount, action, sign_time, sign_string) ==
    IF ~p.enabled THEN FALSE
    ELSE LET data == Fmt(click_trans_id) \o Fmt(service_id) \o Fmt(p.secret_key)
                     \o Fmt(order_id) \o Fmt(amount) \o Fmt(action) \o Fmt(sign_time)
         IN  Md5Hex(data) = sign_string

\* ClickProvider.handle_prepare_webhook
ClickHandlePrepareWebhook(p, params) ==
    IF ~p.enabled THEN [error |-> -8, error_note |-> "Provider disabled"]
    ELSE LET click_trans_id == Get(params, "click_trans_id")
             service_id == Get(params, "service_id")
             order_id == Get(params, "merchant_trans_id")
             amount == Get(params, "amount")
             action == Get(params, "action")
             sign_time == Get(params, "sign_time")
             sign_string == Get(params, "sign_string")
         IN  IF ~ClickVerifyWebhookSignature(p, click_trans_id, service_id, order_id,
                                             order_id, amount, action, sign_time, sign_string)
             THEN [error |-> -1, error_note |-> "Invalid signature"]
             ELSE [error |-> 0, error_note |-> "Success",
                   merchant_trans_id |-> order_id, merchant_prepare_id |-> click_trans_id]

\* ClickProvider.handle_complete_webhook; error_code != 0 is false only of the int 0
ClickHandleCompleteWebhook(p, params) ==
    IF ~p.enabled THEN [error |-> -8, error_note |-> "Provider disabled"]
    ELSE LET click_trans_id == Get(params, "click_trans_id")
             service_id == Get(params, "service_id")
             order_id == Get(params, "merchant_trans_id")
             amount == Get(params, "amount")
             action == Get(params, "action")
             sign_time == Get(params, "sign_time")
             sign_string == Get(params, "sign_string")
             error_code == Get(params, "error")
         IN  IF ~ClickVerifyWebhookSignature(p, click_trans_id, service_id, order_id,
                                             order_id, amount, action, sign_time, sign_string)
             THEN [error |-> -1, error_note |-> "Invalid signature"]
             ELSE IF error_code # PyInt(0)
             THEN [error |-> -6, error_note |-> "Transaction cancelled"]
             ELSE [error |-> 0, error_note |-> "Success",
                   merchant_trans_id |-> order_id, merchant_confirm_id |-> click_trans_id]

-----------------------------------------------------------------------------
(* Billing service and the PayMe webhook: services/billing_service.py,      *)
(* handlers/webhooks.py, webhook_app.py                                     *)

\* SecretStr.get_secret_value() if the setting is set, else None
SecretValue(secret) == IF Truthy(secret) THEN secret ELSE None

\* BillingService.__init__: self.payme
BillingServicePayme(s) ==
    PayMeProvider(s.payme_merchant_id, SecretValue(s.payme_secret_key))

\* An HTTPException raised by a handler, as the response the framework makes of it
HTTPException(status_code, detail) ==
    [http |-> status_code, body |-> [detail |-> detail], dispatched |-> FALSE]

\* A value returned by a handler: the JSON body, answered with HTTP 200
Returned(body, dispatched) == [http |-> 200, body |-> body, dispatched |-> dispatched]

\* An exception that leaves the handler
Uncaught(dispatched) ==
    [http |-> 500, body |-> [detail |-> "Internal Server Error"], dispatched |-> dispatched]

\* PaymeWebhook without the check for a missing header: verification rejects it
PaymeWebhookNoHeaderCheck(s, authorization, body) ==
    LET payme_provider == BillingServicePayme(s) IN
    IF ~PayMeIsAvailable(payme_provider)
    THEN HTTPException(503, "PayMe provider not configured")
    ELSE IF ~PayMeVerifyWebhookSignature(payme_provider, authorization)
    THEN HTTPException(403, "Invalid signature")
    ELSE IF body.json = "invalid"
    THEN Returned([jsonrpc |-> "2.0", id |-> None,
                   error |-> [code |-> -32700, message |-> "Parse error"]], FALSE)
    ELSE IF body.json = "object"
    THEN Returned(PayMeHandleWebhook(payme_provider, body.value), TRUE)
    ELSE Uncaught(TRUE)

\* payme_webhook(request, authorization, billing_service); request.json() gives
\* body.value when body.json = "object", a list when "array", raises when "invalid"
PaymeWebhook(s, authorization, body) ==
    LET payme_provider == BillingServicePayme(s) IN
    IF ~PayMeIsAvailable(payme_provider)
    THEN HTTPException(503, "PayMe provider not configured")
    ELSE IF ~Truthy(authorization)
    THEN HTTPException(401, "Authorization header required")
    ELSE IF ~PayMeVerifyWebhookSignature(payme_provider, authorization)
    THEN HTTPException(403, "Invalid signature")
    ELSE IF body.json = "invalid"
    THEN Returned([jsonrpc |-> "2.0", id |-> None,
                   error |-> [code |-> -32700, message |-> "Parse error"]], FALSE)
    ELSE IF body.json = "object"
    THEN Returned(PayMeHandleWebhook(payme_provider, body.value), TRUE)
    \* a list has no get(): handle_webhook raises, and so does body.get("id")
    \* in the except clause
    ELSE Uncaught(TRUE)

\* handle_payme_webhook(request): the route passes authorization=None
HandlePaymeWebhook(s, headers, body) == PaymeWebhook(s, None, body)

\* BillingService.__init__: self.click
BillingServiceClick(s) ==
    ClickProvider(s.click_merchant_id, s.click_service_id, SecretValue(s.click_secret_key))

\* The signature check both Click handlers make on dict(request.query_params)
ClickWebhookVerifies(click_provider, params) ==
    LET click_trans_id == GetOr(params, "click_trans_id", <<>>)
        service_id == GetOr(params, "service_id", <<>>)
        order_id == GetOr(params, "merchant_trans_id", <<>>)
        amount == GetOr(params, "amount", <<>>)
        action == GetOr(params, "action", <<>>)
        sign_time == GetOr(params, "sign_time", <<>>)
        sign_string == GetOr(params, "sign_string", <<>>)
    IN  ClickVerifyWebhookSignature(click_provider, click_trans_id, service_id, order_id,
                                    order_id, amount, action, sign_time, sign_string)

\* click_prepare_webhook(request, billing_service); params is dict(request.query_params)
ClickPrepareWebhook(s, params) ==
    LET click_provider == BillingServiceClick(s) IN
    IF ~ClickIsAvailable(click_provider)
    THEN HTTPException(503, "Click provider not configured")
    ELSE IF ~ClickWebhookVerifies(click_provider, params)
    THEN Returned([error |-> -1, error_note |-> "Invalid signature"], FALSE)
    ELSE Returned(ClickHandlePrepareWebhook(click_provider, params), TRUE)

\* click_complete_webhook(request, billing_service)
ClickCompleteWebhook(s, params) ==
    LET click_provider == BillingServiceClick(s) IN
    IF ~ClickIsAvailable(click_provider)
    THEN HTTPException(503, "Click provider not configured")
    ELSE IF ~ClickWebhookVerifies(click_provider, params)
    THEN Returned([error |-> -1, error_note |-> "Invalid signature"], FALSE)
    ELSE Returned(ClickHandleCompleteWebhook(click_provider, params), TRUE)

\* GET /webhooks/click/prepare
HandleClickPrepare(s, params) == ClickPrepareWebhook(s, params)

\* GET /webhooks/click/complete
HandleClickComplete(s, params) == ClickCompleteWebhook(s, params)

-----------------------------------------------------------------------------
(* The store: packages/db/mentorium_db *)

RegisteredParents == {1}

\* BillingService.TARIFFS: (days, price in UZS)
TARIFFS ==
    [monthly |-> <<30, 99000>>, quarterly |-> <<90, 249000>>, annual |-> <<365, 899000>>]

TicksPerDay == 2

\* timedelta(days=d) in ticks
Days(d) == d * TicksPerDay

\* SubscriptionRepository.create: the new row
NewSubscription(parent_id, tariff, amount, duration_days, auto_renew) ==
    [parent_id |-> parent_id, status |-> "PENDING", tariff |-> tariff, amount |-> amount,
     expires_at |-> now + Days(duration_days), auto_renew |-> auto_renew,
     cancelled_at |-> -1]

\* PaymentRepository.create: the new row
NewPayment(parent_id, transaction_id, provider, amount) ==
    [parent_id |-> parent_id, transaction_id |-> transaction_id, provider |-> provider,
     amount |-> amount, currency |-> "UZS", status |-> "PENDING"]

\* The rows a call has moved to a status
MovedTo(old, new, status) ==
    {i \in DOMAIN new : new[i].status = status /\ (i \notin DOMAIN old \/ old[i].status # status)}

\* SubscriptionRepository.create in a session that commits
SubscriptionCreate(parent_id, tariff) ==
    /\ Len(subscriptions) < MaxSubscriptions
    /\ subscriptions' = Append(subscriptions,
            NewSubscription(parent_id, tariff, TARIFFS[tariff][2], TARIFFS[tariff][1], FALSE))
    /\ UNCHANGED <<settings, now, payments, calls>>

\* PaymentRepository.create in a session that commits; transaction_id is unique
PaymentCreate(parent_id, transaction_id, provider, amount) ==
    /\ Len(payments) < MaxPayments
    /\ \A i \in DOMAIN payments : payments[i].transaction_id # transaction_id
    /\ payments' = Append(payments, NewPayment(parent_id, transaction_id, provider, amount))
    /\ UNCHANGED <<settings, now, subscriptions, calls>>

\* SubscriptionRepository.get_active_subscription: the rows the query selects
ActiveSubscriptions(parent_id) ==
    {j \in DOMAIN subscriptions :
        /\ subscriptions[j].parent_id = parent_id
        /\ subscriptions[j].status = "ACTIVE"
        /\ subscriptions[j].expires_at > now}

\* ClickProvider.create_payment_link, in test mode
ClickCreatePaymentLink(p, amount, order_id, return_url) ==
    IF ~p.enabled THEN None
    ELSE <<"https://test.click.uz/services/pay?", "service_id=">> \o p.service_id
         \o <<"&merchant_id=">> \o p.merchant_id \o <<"&amount=">> \o IntStr(amount)
         \o <<"&transaction_param=">> \o order_id \o <<"&return_url=">> \o return_url

\* PayMeProvider.create_payment_link, in test mode: the amount goes in tiyin
PayMeCreatePaymentLink(p, amount, order_id, return_url) ==
    IF ~p.enabled THEN None
    ELSE <<"https://checkout.test.paycom.uz/">>
         \o B64Encode(<<"m=">> \o p.merchant_id \o <<";a=">> \o IntStr(amount * 100)
                      \o <<";ac.order_id=">> \o order_id \o <<";c=">> \o return_url)

\* The keyword parameters of PaymentRepository.create
PaymentCreateParameters ==
    {"parent_id", "transaction_id", "provider", "amount", "currency", "external_ref",
     "payment_metadata"}

\* The keyword arguments BillingService.create_subscription passes to it
CreateSubscriptionPaymentArguments ==
    {"parent_id", "subscription_id", "transaction_id", "amount", "currency", "provider"}

\* What a service call leaves: the exception it raised ("" for none), the value it
\* returned, and the committed rows
Raised(exception) ==
    [raised |-> exception, value |-> NoValue,
     subscriptions |-> subscriptions, payments |-> payments]

Completed(value, subs, pays) ==
    [raised |-> "", value |-> value, subscriptions |-> subs, payments |-> pays]

\* CreateSubscription without the check of the tariff: the lookup in TARIFFS raises
CreateSubscriptionUnchecked(parent_telegram_id, tariff, payment_provider) ==
    IF tariff \notin DOMAIN TARIFFS THEN Raised("KeyError")
    ELSE IF parent_telegram_id \notin RegisteredParents THEN Raised("ValueError")
    ELSE LET days == TARIFFS[tariff][1]
             amount == TARIFFS[tariff][2]
             subs == Append(subscriptions,
                            NewSubscription(parent_telegram_id, tariff, amount, days, FALSE))
         IN  IF ~(CreateSubscriptionPaymentArguments \subseteq PaymentCreateParameters)
             THEN Raised("TypeError")
             ELSE LET pays == Append(payments,
                                NewPayment(parent_telegram_id,
                                           <<"sub_", ToString(Len(subs)), "_", ToString(now)>>,
                                           payment_provider, amount))
                      order_id == IntStr(Len(pays))
                      return_url == <<"https://t.me/your_bot?start=payment_">> \o order_id
                      payment_url ==
                        IF payment_provider = "payme"
                        THEN PayMeCreatePaymentLink(BillingServicePayme(settings), amount,
                                                    order_id, return_url)
                        ELSE IF payment_provider = "click"
                        THEN ClickCreatePaymentLink(BillingServiceClick(settings), amount,
                                                    order_id, return_url)
                        ELSE None
                  IN  Completed([payment_url |-> payment_url, amount |-> amount,
                                 payment_id |-> Len(pays)], subs, pays)

\* CreateSubscription in a session that keeps the flushed subscription when
\* PaymentRepository.create raises
CreateSubscriptionKeepingFlushed(parent_telegram_id, tariff, payment_provider) ==
    IF tariff \notin DOMAIN TARIFFS THEN Raised("ValueError")
    ELSE IF parent_telegram_id \notin RegisteredParents THEN Raised("ValueError")
    ELSE [raised |-> "TypeError", value |-> NoValue,
          subscriptions |-> Append(subscriptions,
                                   NewSubscription(parent_telegram_id, tariff,
                                                   TARIFFS[tariff][2], TARIFFS[tariff][1],
                                                   FALSE)),
          payments |-> payments]

\* BillingService.create_subscription; get_session rolls back on an exception
CreateSubscription(parent_telegram_id, tariff, payment_provider) ==
    IF tariff \notin DOMAIN TARIFFS THEN Raised("ValueError")
    ELSE IF parent_telegram_id \notin RegisteredParents THEN Raised("ValueError")
    ELSE LET days == TARIFFS[tariff][1]
             amount == TARIFFS[tariff][2]
             subs == Append(subscriptions,
                            NewSubscription(parent_telegram_id, tariff, amount, days, FALSE))
         IN  IF ~(CreateSubscriptionPaymentArguments \subseteq PaymentCreateParameters)
             THEN Raised("TypeError")
             ELSE LET pays == Append(payments,
                                NewPayment(parent_telegram_id,
                                           <<"sub_", ToString(Len(subs)), "_", ToString(now)>>,
                                           payment_provider, amount))
                      order_id == IntStr(Len(pays))
                      return_url == <<"https://t.me/your_bot?start=payment_">> \o order_id
                      payment_url ==
                        IF payment_provider = "payme"
                        THEN PayMeCreatePaymentLink(BillingServicePayme(settings), amount,
                                                    order_id, return_url)
                        ELSE IF payment_provider = "click"
                        THEN ClickCreatePaymentLink(BillingServiceClick(settings), amount,
                                                    order_id, return_url)
                        ELSE None
                  IN  Completed([payment_url |-> payment_url, amount |-> amount,
                                 payment_id |-> Len(pays)], subs, pays)

\* BillingService.check_subscription_status; scalar_one_or_none raises on two rows
CheckSubscriptionStatus(parent_telegram_id) ==
    IF parent_telegram_id \notin RegisteredParents THEN [raised |-> "", found |-> FALSE]
    ELSE LET rows == ActiveSubscriptions(parent_telegram_id) IN
         IF Cardinality(rows) > 1 THEN [raised |-> "MultipleResultsFound", found |-> TRUE]
         ELSE IF rows = {}
         THEN [raised |-> "", found |-> TRUE, active |-> FALSE, days_left |-> 0]
         ELSE LET subscription == subscriptions[CHOOSE j \in rows : TRUE]
                  days_left == (subscription.expires_at - now) \div TicksPerDay
              IN  [raised |-> "", found |-> TRUE, active |-> TRUE,
                   expires_at |-> subscription.expires_at,
                   days_left |-> IF days_left > 0 THEN days_left ELSE 0,
                   tariff |-> subscription.tariff, auto_renew |-> subscription.auto_renew]

-----------------------------------------------------------------------------
(* Requests *)

Slots == 1..MaxCalls

Idle == [pc |-> "idle", op |-> "none", in |-> NoValue, out |-> NoValue,
         paid |-> {}, activated |-> {}]

\* A request arrives at a free slot; slots are taken in order
Receive(c, op, input) ==
    /\ calls[c].pc = "idle"
    /\ IF c = 1 THEN TRUE ELSE calls[c - 1].pc # "idle"
    /\ calls' = [calls EXCEPT ![c] = [Idle EXCEPT !.pc = "received", !.op = op, !.in = input]]
    /\ UNCHANGED <<settings, now, subscriptions, payments>>

\* The handler of a received request runs and answers; paid and activated are the
\* rows it moved to SUCCESS and to ACTIVE
Answer(c, out) ==
    calls' = [calls EXCEPT ![c] = [@ EXCEPT !.pc = "answered", !.out = out,
                !.paid = MovedTo(payments, payments', "SUCCESS"),
                !.activated = MovedTo(subscriptions, subscriptions', "ACTIVE")]]

\* payme_webhook called with the request's Authorization header
AnswerPaymeWebhook(c) ==
    /\ calls[c].pc = "received" /\ calls[c].op = "payme_webhook"
    /\ UNCHANGED <<settings, now, subscriptions, payments>>
    /\ Answer(c, PaymeWebhook(settings, calls[c].in.authorization, calls[c].in.body))

\* POST /webhooks/payme
AnswerHandlePaymeWebhook(c) ==
    /\ calls[c].pc = "received" /\ calls[c].op = "handle_payme_webhook"
    /\ UNCHANGED <<settings, now, subscriptions, payments>>
    /\ Answer(c, HandlePaymeWebhook(settings, calls[c].in.authorization, calls[c].in.body))

\* GET /webhooks/click/prepare
AnswerHandleClickPrepare(c) ==
    /\ calls[c].pc = "received" /\ calls[c].op = "handle_click_prepare"
    /\ UNCHANGED <<settings, now, subscriptions, payments>>
    /\ Answer(c, HandleClickPrepare(settings, calls[c].in))

\* GET /webhooks/click/complete
AnswerHandleClickComplete(c) ==
    /\ calls[c].pc = "received" /\ calls[c].op = "handle_click_complete"
    /\ UNCHANGED <<settings, now, subscriptions, payments>>
    /\ Answer(c, HandleClickComplete(settings, calls[c].in))

\* ClickProvider.handle_complete_webhook called with a dict of parsed values
AnswerClickHandleCompleteWebhook(c) ==
    /\ calls[c].pc = "received" /\ calls[c].op = "handle_complete_webhook"
    /\ UNCHANGED <<settings, now, subscriptions, payments>>
    /\ Answer(c, Returned(ClickHandleCompleteWebhook(BillingServiceClick(settings),
                                                     calls[c].in), TRUE))

\* BillingService.create_subscription
AnswerCreateSubscription(c) ==
    /\ calls[c].pc = "received" /\ calls[c].op = "create_subscription"
    /\ LET r == CreateSubscription(calls[c].in.parent_telegram_id, calls[c].in.tariff,
                                   calls[c].in.payment_provider)
       IN  /\ subscriptions' = r.subscriptions
           /\ payments' = r.payments
           /\ Answer(c, [raised |-> r.raised, value |-> r.value])
    /\ UNCHANGED <<settings, now>>

\* Time passes
AdvanceClock ==
    /\ now < MaxNow
    /\ now' = now + 1
    /\ UNCHANGED <<settings, subscriptions, payments, calls>>

-----------------------------------------------------------------------------
(* PayMe requests *)

MerchantId == <<"merchant">>
PaymeSecret == <<"k1">>

NoSettings ==
    [payme_merchant_id |-> None, payme_secret_key |-> None, click_merchant_id |-> None,
     click_service_id |-> None, click_secret_key |-> None]

PaymeSettings ==
    {[NoSettings EXCEPT !.payme_merchant_id = m, !.payme_secret_key = k] :
        m \in {None, MerchantId}, k \in {None, PaymeSecret}}

\* "<scheme> base64(<user>:<password>)"
BasicAuth(scheme, user, password) == <<scheme, " ">> \o B64Encode(<<user, ":">> \o password)

GoodPaymeHeader == BasicAuth("Basic", "Paycom", PaymeSecret)

PaymeHeaders ==
    {None, <<>>, GoodPaymeHeader,
     BasicAuth("basic", "Paycom", PaymeSecret),
     BasicAuth("Basic", "Paycom", <<"K1">>),
     BasicAuth("Basic", "paycom", PaymeSecret),
     BasicAuth("Bearer", "Paycom", PaymeSecret),
     <<"Basic">>,
     <<"Basic", " ", "!!">>,
     <<"Basic", " ">> \o B64Encode(<<"Paycom">>)}

PaymeTransactionIds == {<<"t1">>, <<"t2">>}

PaymeMethods ==
    {<<"CheckPerformTransaction">>, <<"CreateTransaction">>, <<"PerformTransaction">>,
     <<"CancelTransaction">>, <<"CheckTransaction">>}

\* A JSON-RPC request object
Rpc(method, transaction) ==
    [json |-> "object",
     value |-> [jsonrpc |-> "2.0", id |-> <<"7">>, method |-> method,
                params |-> [id |-> transaction]]]

\* A JSON-RPC request object without the member method
RpcNoMethod ==
    [json |-> "object", value |-> [jsonrpc |-> "2.0", id |-> <<"7">>,
                                   params |-> [id |-> <<"t1">>]]]

PaymeBodies ==
    {[json |-> "invalid"], [json |-> "array"], RpcNoMethod}
    \cup {Rpc(m, <<"t1">>) : m \in PaymeMethods \cup {<<"GetStatement">>, <<"performtransaction">>}}
    \cup {Rpc(<<"PerformTransaction">>, <<"t2">>)}

PaymeInput(authorization, body) == [authorization |-> authorization, body |-> body]

\* The requests a single caller may send
PaymeRequests ==
    {[op |-> "payme_webhook", in |-> PaymeInput(h, Rpc(<<"PerformTransaction">>, <<"t1">>))] :
        h \in PaymeHeaders}
    \cup {[op |-> "payme_webhook", in |-> PaymeInput(h, b)] :
            h \in {None, GoodPaymeHeader}, b \in PaymeBodies}
    \cup {[op |-> "handle_payme_webhook", in |-> PaymeInput(h, b)] :
            h \in {None, GoodPaymeHeader},
            b \in {[json |-> "invalid"], Rpc(<<"PerformTransaction">>, <<"t1">>)}}

\* The requests PayMe repeats: PerformTransaction with its credentials
PaymePerformRequests ==
    {[op |-> "payme_webhook",
      in |-> PaymeInput(GoodPaymeHeader, Rpc(<<"PerformTransaction">>, t))] :
        t \in PaymeTransactionIds}

NoCalls == \A c \in Slots : calls[c].pc = "idle"

InitStore ==
    /\ now = 0
    /\ subscriptions = <<>>
    /\ payments = <<>>
    /\ calls = [c \in Slots |-> Idle]

PaymeInit == settings \in PaymeSettings /\ InitStore

\* Orders exist before the gateway calls back
PaymeOrder ==
    /\ NoCalls
    /\ \/ SubscriptionCreate(1, "monthly")
       \/ \E t \in PaymeTransactionIds : PaymentCreate(1, t, "PAYME", TARIFFS["monthly"][2])

PaymeReceive ==
    \E c \in Slots :
        \E r \in (IF c = 1 THEN PaymeRequests ELSE PaymePerformRequests) :
            Receive(c, r.op, r.in)

PaymeNext ==
    \/ PaymeOrder
    \/ PaymeReceive
    \/ \E c \in Slots : AnswerPaymeWebhook(c)
    \/ \E c \in Slots : AnswerHandlePaymeWebhook(c)

SpecPayMe == PaymeInit /\ [][PaymeNext]_vars

-----------------------------------------------------------------------------
(* Click requests *)

ServiceId == <<"svc">>
ClickSecret == <<"s3cret">>

ClickSettings ==
    {[NoSettings EXCEPT !.click_merchant_id = m, !.click_service_id = v,
                        !.click_secret_key = k] :
        <<m, v, k>> \in {<<MerchantId, ServiceId, ClickSecret>>, <<None, ServiceId, ClickSecret>>,
                         <<MerchantId, None, ClickSecret>>, <<MerchantId, ServiceId, None>>}}

\* The digest Click puts in sign_string
ClickSign(secret, click_trans_id, service_id, merchant_trans_id, amount, action, sign_time) ==
    Md5Hex(click_trans_id \o service_id \o secret \o merchant_trans_id \o amount \o action
           \o sign_time)

\* The query of a request signed with secret
ClickParams(secret, click_trans_id, merchant_trans_id, amount, action) ==
    [click_trans_id |-> click_trans_id, service_id |-> ServiceId,
     merchant_trans_id |-> merchant_trans_id, amount |-> amount, action |-> action,
     sign_time |-> <<"ts">>,
     sign_string |-> ClickSign(secret, click_trans_id, ServiceId, merchant_trans_id, amount,
                               action, <<"ts">>)]

Without(r, k) == [f \in DOMAIN r \ {k} |-> r[f]]

ClickTransIds == {<<"c1">>, <<"c2">>}

\* Well-signed queries of one phase: action "0" is prepare, "1" is complete
ClickSigned(action) ==
    {ClickParams(ClickSecret, ct, mt, am, action) :
        ct \in ClickTransIds, mt \in {IntStr(1), IntStr(9)}, am \in {<<"99000">>, <<"99001">>}}

\* Queries of one phase whose sign_string is not the digest of their fields
ClickForged(action) ==
    LET r == ClickParams(ClickSecret, <<"c1">>, IntStr(1), <<"99000">>, action) IN
    {ClickParams(<<"wrong">>, <<"c1">>, IntStr(1), <<"99000">>, action),
     [r EXCEPT !.click_trans_id = <<"c2">>],
     [r EXCEPT !.service_id = <<"other">>],
     [r EXCEPT !.merchant_trans_id = IntStr(9)],
     [r EXCEPT !.amount = <<"1">>],
     [r EXCEPT !.action = <<"2">>],
     [r EXCEPT !.sign_time = <<"later">>],
     Without(r, "sign_string")}

\* A query without sign_time, signed over the fields it has
ClickNoSignTime(action) ==
    Without([ClickParams(ClickSecret, <<"c1">>, IntStr(1), <<"99000">>, action)
                EXCEPT !.sign_string = ClickSign(ClickSecret, <<"c1">>, ServiceId, IntStr(1),
                                                 <<"99000">>, action, <<>>)],
            "sign_time")

\* The query of a complete call: error and merchant_prepare_id added
ClickComplete(r, error) ==
    [k \in DOMAIN r \cup {"error", "merchant_prepare_id"} |->
        IF k = "error" THEN error
        ELSE IF k = "merchant_prepare_id" THEN GetOr(r, "click_trans_id", <<>>)
        ELSE r[k]]

ClickRequests ==
    {[op |-> "handle_click_prepare", in |-> r] :
        r \in ClickSigned(<<"0">>) \cup ClickForged(<<"0">>) \cup {ClickNoSignTime(<<"0">>)}}
    \cup {[op |-> "handle_click_complete", in |-> ClickComplete(r, e)] :
            r \in ClickSigned(<<"1">>), e \in {<<"0">>, <<"-5">>}}
    \cup {[op |-> "handle_click_complete", in |-> ClickComplete(r, <<"0">>)] :
            r \in ClickForged(<<"1">>) \cup {ClickNoSignTime(<<"1">>)}}
    \cup {[op |-> "handle_click_complete",
           in |-> Without(ClickComplete(r, <<"0">>), "error")] :
            r \in {ClickParams(ClickSecret, <<"c1">>, IntStr(1), <<"99000">>, <<"1">>)}}
    \cup {[op |-> "handle_complete_webhook", in |-> ClickComplete(r, e)] :
            r \in {ClickParams(ClickSecret, <<"c1">>, IntStr(1), <<"99000">>, <<"1">>)},
            e \in {PyInt(0), PyInt(-5), <<"0">>}}

\* The calls Click repeats: complete with error 0 for order 1
ClickCompleteRequests ==
    {[op |-> "handle_click_complete",
      in |-> ClickComplete(ClickParams(ClickSecret, ct, IntStr(1), <<"99000">>, <<"1">>),
                           <<"0">>)] :
        ct \in ClickTransIds}

ClickInit == settings \in ClickSettings /\ InitStore

\* Orders exist before the gateway calls back
ClickOrder ==
    /\ NoCalls
    /\ \/ SubscriptionCreate(1, "monthly")
       \/ \E t \in {<<"sub_1_0">>, <<"sub_2_0">>} :
            PaymentCreate(1, t, "CLICK", TARIFFS["monthly"][2])

ClickReceive ==
    \E c \in Slots :
        \E r \in (IF c = 1 THEN ClickRequests ELSE ClickCompleteRequests) :
            Receive(c, r.op, r.in)

ClickNext ==
    \/ ClickOrder
    \/ ClickReceive
    \/ \E c \in Slots : AnswerHandleClickPrepare(c)
    \/ \E c \in Slots : AnswerHandleClickComplete(c)
    \/ \E c \in Slots : AnswerClickHandleCompleteWebhook(c)

SpecClick == ClickInit /\ [][ClickNext]_vars

-----------------------------------------------------------------------------
(* PayMe claims *)

Answered(c, op) == calls[c].pc = "answered" /\ calls[c].op = op

\* Slot c is answered in this step
Answers(c) == calls[c].pc = "received" /\ calls'[c].pc = "answered"

PaymeConfigured == Truthy(settings.payme_merchant_id) /\ Truthy(settings.payme_secret_key)

\* The header PayMe sends: Basic base64(Paycom:<configured secret>)
CarriesPaymeCredentials(c) ==
    /\ PaymeConfigured
    /\ calls[c].in.authorization = BasicAuth("Basic", "Paycom", settings.payme_secret_key)

\* The body of call c is a JSON-RPC object naming the method
IsRpc(c, method) ==
    /\ calls[c].in.body.json = "object"
    /\ Get(calls[c].in.body.value, "method") = method

\* Call c is PayMe's PerformTransaction for transaction t
IsPerform(c, t) ==
    /\ calls[c].op = "payme_webhook"
    /\ CarriesPaymeCredentials(c)
    /\ IsRpc(c, <<"PerformTransaction">>)
    /\ calls[c].in.body.value.params.id = t

\* Payment i is the order of transaction t, and its owner has a subscription to activate
IsOrder(i, t) ==
    /\ payments[i].transaction_id = t
    /\ \E j \in DOMAIN subscriptions : subscriptions[j].parent_id = payments[i].parent_id

IsPerformResult(out) ==
    /\ out.http = 200
    /\ "result" \in DOMAIN out.body
    /\ out.body.result.state = 2

\* C1: PerformTransaction called twice with the same transaction id returns the same
\* {transaction, state: 2} result both times, and the subscription of the order is
\* activated exactly once.
C1_PerformTransactionTwice ==
    \A a, b \in Slots : \A t \in PaymeTransactionIds : \A i \in DOMAIN payments :
        (a < b /\ IsOrder(i, t)
            /\ calls[a].pc = "answered" /\ IsPerform(a, t)
            /\ calls[b].pc = "answered" /\ IsPerform(b, t))
        => /\ IsPerformResult(calls[a].out)
           /\ calls[a].out.body = calls[b].out.body
           /\ Cardinality(calls[a].activated \cup calls[b].activated) = 1
           /\ calls[a].activated \cap calls[b].activated = {}

\* C2: two PerformTransaction calls for one transaction, in flight together, move the
\* Payment to SUCCESS exactly once and activate the subscription exactly once, and
\* both answer the success payload.
C2_ConcurrentPerformExactlyOnce ==
    \A a, b \in Slots : \A t \in PaymeTransactionIds : \A i \in DOMAIN payments :
        (a < b /\ IsOrder(i, t)
            /\ calls[a].pc = "answered" /\ IsPerform(a, t)
            /\ calls[b].pc = "answered" /\ IsPerform(b, t))
        => /\ payments[i].status = "SUCCESS"
           /\ (calls[a].paid = {i}) # (calls[b].paid = {i})
           /\ calls[a].paid \cup calls[b].paid = {i}
           /\ Cardinality(calls[a].activated \cup calls[b].activated) = 1
           /\ calls[a].activated \cap calls[b].activated = {}
           /\ IsPerformResult(calls[a].out) /\ IsPerformResult(calls[b].out)
           /\ calls[a].out.body = calls[b].out.body

\* What payme_webhook answers before any JSON-RPC processing
PaymeGate(c, out) ==
    LET authorization == calls[c].in.authorization
        rejected == out.http \in {401, 403, 503}
    IN  /\ ~PaymeConfigured => out.http = 503
        /\ (PaymeConfigured /\ authorization \in {None, <<>>}) => out.http = 401
        /\ (PaymeConfigured /\ authorization \notin {None, <<>>}
                /\ ~PayMeVerifyWebhookSignature(BillingServicePayme(settings), authorization))
            => out.http = 403
        /\ rejected => ~out.dispatched /\ "result" \notin DOMAIN out.body
                        /\ "error" \notin DOMAIN out.body

\* C8: payme_webhook answers 503 when PayMe is not configured, 401 when the
\* Authorization header is missing and 403 when the credentials do not verify; in
\* these cases the dispatcher is not invoked and no record changes.
C8_PaymeGate ==
    [][\A c \in Slots :
        (Answers(c) /\ calls[c].op = "payme_webhook")
        => /\ PaymeGate(c, calls'[c].out)
           /\ calls'[c].out.http \in {401, 403, 503}
                => UNCHANGED <<payments, subscriptions>>]_vars

C8_Witness ==
    \E c \in Slots :
        /\ Answered(c, "payme_webhook")
        /\ PaymeConfigured
        /\ calls[c].in.authorization = BasicAuth("Basic", "Paycom", <<"K1">>)
        /\ calls[c].out.http = 403
        /\ payments # <<>>

\* C9: a request to POST /webhooks/payme carrying Basic base64(Paycom:<secret>)
\* while PayMe is configured is authenticated, reaches the dispatcher and is
\* answered under HTTP 200, never 401.
C9_RouteAuthenticates ==
    \A c \in Slots :
        (Answered(c, "handle_payme_webhook") /\ CarriesPaymeCredentials(c)
            /\ calls[c].in.body.json = "object")
        => calls[c].out.http = 200 /\ calls[c].out.dispatched

\* C10: an authenticated request whose method is none of the five (or is missing) is
\* answered with JSON-RPC error -32601, and no Payment or Subscription changes.
C10_UnknownMethod ==
    [][\A c \in Slots :
        (/\ Answers(c) /\ calls[c].op = "payme_webhook"
         /\ PaymeConfigured
         /\ PayMeVerifyWebhookSignature(BillingServicePayme(settings), calls[c].in.authorization)
         /\ calls[c].in.body.json = "object"
         /\ Get(calls[c].in.body.value, "method") \notin PaymeMethods)
        => /\ calls'[c].out.http = 200
           /\ "error" \in DOMAIN calls'[c].out.body
           /\ calls'[c].out.body.error.code = -32601
           /\ UNCHANGED <<payments, subscriptions>>]_vars

C10_Witness ==
    \E c \in Slots :
        /\ Answered(c, "payme_webhook")
        /\ calls[c].in.authorization = GoodPaymeHeader
        /\ calls[c].in.body = RpcNoMethod
        /\ calls[c].out.body = [error |-> [code |-> -32601, message |-> "Method not found"]]
        /\ payments # <<>> /\ subscriptions # <<>>

\* Call c passed the three checks payme_webhook makes before it reads the body
IsAuthenticated(c) ==
    /\ calls[c].op = "payme_webhook"
    /\ PaymeConfigured
    /\ Truthy(calls[c].in.authorization)
    /\ PayMeVerifyWebhookSignature(BillingServicePayme(settings), calls[c].in.authorization)

\* C11: after authentication every failure of the PayMe webhook is answered as a
\* JSON-RPC error under HTTP 200 and no exception leaves the handler: a body that is
\* not JSON gives -32700 with id null, and an exception raised while dispatching
\* (a JSON body that is not an object) gives -32603.
C11_FailuresAreJsonRpcErrors ==
    \A c \in Slots :
        (calls[c].pc = "answered" /\ IsAuthenticated(c))
        => /\ calls[c].out.http = 200
           /\ calls[c].in.body.json = "invalid"
                => calls[c].out.body = [jsonrpc |-> "2.0", id |-> None,
                                        error |-> [code |-> -32700, message |-> "Parse error"]]
           /\ calls[c].in.body.json = "array"
                => /\ "error" \in DOMAIN calls[c].out.body
                   /\ calls[c].out.body.error.code = -32603

-----------------------------------------------------------------------------
(* Click claims *)

ClickConfigured ==
    /\ Truthy(settings.click_merchant_id)
    /\ Truthy(settings.click_service_id)
    /\ Truthy(settings.click_secret_key)

ClickSignedFields ==
    {"click_trans_id", "service_id", "merchant_trans_id", "amount", "action", "sign_time"}

\* The digest of the fields of a query under the configured secret ("" for a missing one)
ClickDigest(params) ==
    ClickSign(settings.click_secret_key,
              GetOr(params, "click_trans_id", <<>>), GetOr(params, "service_id", <<>>),
              GetOr(params, "merchant_trans_id", <<>>), GetOr(params, "amount", <<>>),
              GetOr(params, "action", <<>>), GetOr(params, "sign_time", <<>>))

\* Call c is a complete call through the route, with all its fields and Click's signature
IsSignedComplete(c) ==
    /\ calls[c].op = "handle_click_complete"
    /\ ClickConfigured
    /\ ClickSignedFields \subseteq DOMAIN calls[c].in
    /\ "sign_string" \in DOMAIN calls[c].in
    /\ calls[c].in.sign_string = ClickDigest(calls[c].in)

\* Payment i is the order a query names, and its owner has a subscription to activate
IsClickOrder(i, params) ==
    /\ params.merchant_trans_id = IntStr(i)
    /\ \E j \in DOMAIN subscriptions : subscriptions[j].parent_id = payments[i].parent_id

\* C3: two complete calls for one click_trans_id with error 0, in flight together, move
\* the Payment to SUCCESS exactly once and activate the subscription exactly once.
C3_ConcurrentCompleteExactlyOnce ==
    \A a, b \in Slots : \A i \in DOMAIN payments :
        (/\ a < b
         /\ calls[a].pc = "answered" /\ IsSignedComplete(a)
         /\ calls[b].pc = "answered" /\ IsSignedComplete(b)
         /\ calls[a].in.click_trans_id = calls[b].in.click_trans_id
         /\ "error" \in DOMAIN calls[a].in /\ calls[a].in.error = <<"0">>
         /\ "error" \in DOMAIN calls[b].in /\ calls[b].in.error = <<"0">>
         /\ IsClickOrder(i, calls[a].in) /\ IsClickOrder(i, calls[b].in))
        => /\ (calls[a].paid = {i}) # (calls[b].paid = {i})
           /\ calls[a].paid \cup calls[b].paid = {i}
           /\ Cardinality(calls[a].activated \cup calls[b].activated) = 1
           /\ calls[a].activated \cap calls[b].activated = {}

\* C4: a signed complete call with error 0 in the query marks the Payment SUCCESS,
\* activates the subscription and answers
\* {error: 0, error_note: "Success", merchant_trans_id, merchant_confirm_id}.
C4_CompleteSuccess ==
    \A c \in Slots : \A i \in DOMAIN payments :
        (/\ calls[c].pc = "answered" /\ IsSignedComplete(c)
         /\ "error" \in DOMAIN calls[c].in /\ calls[c].in.error = <<"0">>
         /\ IsClickOrder(i, calls[c].in))
        => /\ calls[c].out.http = 200
           /\ calls[c].out.body =
                [error |-> 0, error_note |-> "Success",
                 merchant_trans_id |-> calls[c].in.merchant_trans_id,
                 merchant_confirm_id |-> calls[c].in.click_trans_id]
           /\ payments[i].status = "SUCCESS"
           /\ \E j \in DOMAIN subscriptions :
                /\ subscriptions[j].parent_id = payments[i].parent_id
                /\ subscriptions[j].status = "ACTIVE"

\* C5: a signed complete call with a non-zero error marks the Payment CANCELLED,
\* activates nothing and answers {error: -6, error_note: "Transaction cancelled"}.
C5_CompleteCancelled ==
    \A c \in Slots : \A i \in DOMAIN payments :
        (/\ calls[c].pc = "answered" /\ IsSignedComplete(c)
         /\ "error" \in DOMAIN calls[c].in /\ calls[c].in.error = <<"-5">>
         /\ IsClickOrder(i, calls[c].in))
        => /\ calls[c].out.http = 200
           /\ calls[c].out.body = [error |-> -6, error_note |-> "Transaction cancelled"]
           /\ payments[i].status = "CANCELLED"
           /\ calls[c].activated = {}

\* C7: with Click configured, a prepare or complete query whose sign_string is not the
\* digest of click_trans_id + service_id + secret_key + merchant_trans_id + amount +
\* action + sign_time is answered with error -1, and no Payment or Subscription changes.
C7_BadSignatureRejected ==
    [][\A c \in Slots :
        (/\ Answers(c)
         /\ calls[c].op \in {"handle_click_prepare", "handle_click_complete"}
         /\ ClickConfigured
         /\ GetOr(calls[c].in, "sign_string", <<>>) # ClickDigest(calls[c].in))
        => /\ calls'[c].out.http = 200
           /\ calls'[c].out.body = [error |-> -1, error_note |-> "Invalid signature"]
           /\ UNCHANGED <<payments, subscriptions>>]_vars

C7_Witness ==
    \E c \in Slots :
        /\ Answered(c, "handle_click_prepare")
        /\ ClickConfigured
        /\ calls[c].in = ClickParams(<<"wrong">>, <<"c1">>, IntStr(1), <<"99000">>, <<"0">>)
        /\ calls[c].out.body.error = -1
        /\ payments # <<>> /\ subscriptions # <<>>

\* Call c is a prepare or complete call through its route
IsClickRoute(c) == calls[c].op \in {"handle_click_prepare", "handle_click_complete"}

\* C12: with Click not configured, the prepare and the complete endpoint answer HTTP 200
\* with {error: -8, error_note: "Provider disabled"}, before the signature is looked at
\* and before any business logic.
C12_DisabledAnswersMinus8 ==
    \A c \in Slots :
        (calls[c].pc = "answered" /\ IsClickRoute(c) /\ ~ClickConfigured)
        => /\ calls[c].out.http = 200
           /\ calls[c].out.body = [error |-> -8, error_note |-> "Provider disabled"]
           /\ ~calls[c].out.dispatched

\* Call c is a prepare call through the route, with all its fields and Click's signature
IsSignedPrepare(c) ==
    /\ calls[c].op = "handle_click_prepare"
    /\ ClickConfigured
    /\ ClickSignedFields \subseteq DOMAIN calls[c].in
    /\ "sign_string" \in DOMAIN calls[c].in
    /\ calls[c].in.sign_string = ClickDigest(calls[c].in)

\* C13: a signed prepare call is answered with error 0 only if merchant_trans_id names
\* an existing order and amount equals the amount of that order; otherwise the answer
\* carries a negative error code.
C13_PrepareChecksOrderAndAmount ==
    \A c \in Slots :
        (calls[c].pc = "answered" /\ IsSignedPrepare(c))
        => /\ calls[c].out.http = 200
           /\ IF \E i \in DOMAIN payments :
                    /\ calls[c].in.merchant_trans_id = IntStr(i)
                    /\ calls[c].in.amount = IntStr(payments[i].amount)
              THEN calls[c].out.body.error = 0
              ELSE calls[c].out.body.error < 0

\* Call c is a signed complete call, through the route or to the provider
IsComplete(c) ==
    /\ calls[c].op \in {"handle_click_complete", "handle_complete_webhook"}
    /\ ClickConfigured
    /\ "click_trans_id" \in DOMAIN calls[c].in

\* C14: a complete call for a click_trans_id is accepted (error 0) only if a prepare
\* call for the same click_trans_id was accepted before it.
C14_CompleteNeedsPrepare ==
    [][\A c \in Slots :
        (/\ Answers(c) /\ IsComplete(c)
         /\ calls'[c].out.http = 200 /\ calls'[c].out.body.error = 0)
        => \E a \in Slots :
            /\ Answered(a, "handle_click_prepare")
            /\ Get(calls[a].in, "click_trans_id") = calls[c].in.click_trans_id
            /\ calls[a].out.http = 200 /\ calls[a].out.body.error = 0]_vars

-----------------------------------------------------------------------------
(* Round trip: start_subscription, then Click's complete *)

TelegramIds == {1, 2}

StartRequests ==
    {[op |-> "create_subscription",
      in |-> [parent_telegram_id |-> o, tariff |-> t, payment_provider |-> v]] :
        o \in TelegramIds, t \in {"monthly", "quarterly", "annual", "weekly"},
        v \in {"payme", "click", "telegram_stars"}}

RoundTripReceive ==
    \E c \in Slots :
        \E r \in (IF c = 1 THEN StartRequests ELSE ClickCompleteRequests) :
            Receive(c, r.op, r.in)

RoundTripNext ==
    \/ RoundTripReceive
    \/ AdvanceClock
    \/ \E c \in Slots : AnswerCreateSubscription(c)
    \/ \E c \in Slots : AnswerHandleClickComplete(c)

SpecRoundTrip == ClickInit /\ [][RoundTripNext]_vars

\* Call c is start_subscription(owner, "monthly", "click") for a registered owner
IsMonthlyClickStart(c) ==
    /\ calls[c].op = "create_subscription"
    /\ ClickConfigured
    /\ calls[c].in.parent_telegram_id \in RegisteredParents
    /\ calls[c].in.tariff = "monthly"
    /\ calls[c].in.payment_provider = "click"

\* C6: start_subscription(owner, "monthly", "click") for a registered owner, with Click
\* configured, creates the payment, and once a signed complete call with error 0 naming
\* that payment is answered, check_access(owner) is active with 29 or 30 days left.
C6_RoundTrip ==
    [][\A c \in Slots :
        /\ (Answers(c) /\ IsMonthlyClickStart(c))
            => /\ calls'[c].out.raised = ""
               /\ calls'[c].out.value.payment_id \in DOMAIN payments'
        /\ \A a \in Slots :
            (/\ Answers(c) /\ IsSignedComplete(c)
             /\ "error" \in DOMAIN calls[c].in /\ calls[c].in.error = <<"0">>
             /\ calls[a].pc = "answered" /\ IsMonthlyClickStart(a)
             /\ calls[a].out.raised = ""
             /\ calls[c].in.merchant_trans_id = IntStr(calls[a].out.value.payment_id))
            => LET access == CheckSubscriptionStatus(calls[a].in.parent_telegram_id)'
               IN  /\ access.raised = ""
                   /\ access.active
                   /\ access.days_left \in {29, 30}]_vars

\* Call c is start_subscription with a tariff of the catalog for a registered owner
IsCatalogStart(c) ==
    /\ calls[c].op = "create_subscription"
    /\ calls[c].in.parent_telegram_id \in RegisteredParents
    /\ calls[c].in.tariff \in {"monthly", "quarterly", "annual"}

\* C17: start_subscription with a tariff code outside {monthly, quarterly, annual} fails
\* with a validation error (ValueError) and creates no Subscription and no Payment, for
\* every owner and provider.
C17_UnknownTariffRejected ==
    [][\A c \in Slots :
        (/\ Answers(c) /\ calls[c].op = "create_subscription"
         /\ calls[c].in.tariff \notin {"monthly", "quarterly", "annual"})
        => /\ calls'[c].out.raised = "ValueError"
           /\ UNCHANGED <<subscriptions, payments>>]_vars

C17_Witness ==
    \E c \in Slots :
        /\ Answered(c, "create_subscription")
        /\ calls[c].in = [parent_telegram_id |-> 1, tariff |-> "weekly",
                          payment_provider |-> "click"]
        /\ calls[c].out.raised = "ValueError"
        /\ subscriptions = <<>> /\ payments = <<>>

\* C18: start_subscription for a registered owner and a tariff of the catalog completes
\* and leaves exactly one new PENDING Subscription and exactly one new PENDING Payment
\* whose subscription_id is that Subscription and whose amount is the tariff price.
C18_StartCreatesPendingPair ==
    [][\A c \in Slots :
        (Answers(c) /\ IsCatalogStart(c))
        => /\ calls'[c].out.raised = ""
           /\ Len(subscriptions') = Len(subscriptions) + 1
           /\ subscriptions'[Len(subscriptions')].status = "PENDING"
           /\ Len(payments') = Len(payments) + 1
           /\ LET payment == payments'[Len(payments')]
              IN  /\ payment.status = "PENDING"
                  /\ payment.amount = TARIFFS[calls[c].in.tariff][2]
                  /\ "subscription_id" \in DOMAIN payment
                  /\ payment.subscription_id = Len(subscriptions')]_vars

-----------------------------------------------------------------------------
(* The ledger: repositories/subscription.py, repositories/payment.py and the *)
(* BillingService operations over them                                       *)

MaxDays == 5

\* duration_days a caller of SubscriptionRepository.create gives
DurationDays == {1, 2}

\* The most recent subscription row of a parent, 0 if there is none
MostRecent(parent_id) ==
    LET rows == {j \in DOMAIN subscriptions : subscriptions[j].parent_id = parent_id}
    IN  IF rows = {} THEN 0 ELSE CHOOSE j \in rows : \A k \in rows : k <= j

\* (later - earlier).days of a timedelta in ticks
WholeDays(earlier, later) == (later - earlier) \div TicksPerDay

\* SubscriptionRepository.create(parent_id, tariff, amount, duration_days) in a session
\* that commits
LedgerCreate(parent_id, tariff, duration_days) ==
    /\ Len(subscriptions) < MaxSubscriptions
    /\ subscriptions' = Append(subscriptions,
            NewSubscription(parent_id, tariff, TARIFFS[tariff][2], duration_days, FALSE))
    /\ UNCHANGED <<settings, now, payments, calls>>

\* SubscriptionRepository.activate in a session that commits
SubscriptionActivate(subscription_id) ==
    /\ subscription_id \in DOMAIN subscriptions
    /\ subscriptions' = [subscriptions EXCEPT ![subscription_id].status = "ACTIVE"]
    /\ UNCHANGED <<settings, now, payments, calls>>

\* SubscriptionRepository.cancel in a session that commits
SubscriptionCancel(subscription_id) ==
    /\ subscription_id \in DOMAIN subscriptions
    /\ subscriptions' = [subscriptions EXCEPT ![subscription_id].status = "CANCELLED",
                                              ![subscription_id].cancelled_at = now,
                                              ![subscription_id].auto_renew = FALSE]
    /\ UNCHANGED <<settings, now, payments, calls>>

\* SubscriptionRepository.expire in a session that commits
SubscriptionExpire(subscription_id) ==
    /\ subscription_id \in DOMAIN subscriptions
    /\ subscriptions' = [subscriptions EXCEPT ![subscription_id].status = "EXPIRED"]
    /\ UNCHANGED <<settings, now, payments, calls>>

\* SubscriptionRepository.get_expired: the rows the query selects
GetExpired ==
    {j \in DOMAIN subscriptions :
        subscriptions[j].status = "ACTIVE" /\ subscriptions[j].expires_at <= now}

\* PaymentRepository.mark_success in a session that commits
PaymentMarkSuccess(payment_id) ==
    /\ payment_id \in DOMAIN payments
    /\ payments' = [payments EXCEPT ![payment_id].status = "SUCCESS"]
    /\ UNCHANGED <<settings, now, subscriptions, calls>>

\* PaymentRepository.mark_failed in a session that commits
PaymentMarkFailed(payment_id) ==
    /\ payment_id \in DOMAIN payments
    /\ payments' = [payments EXCEPT ![payment_id].status = "FAILED"]
    /\ UNCHANGED <<settings, now, subscriptions, calls>>

\* PaymentRepository.mark_cancelled in a session that commits
PaymentMarkCancelled(payment_id) ==
    /\ payment_id \in DOMAIN payments
    /\ payments' = [payments EXCEPT ![payment_id].status = "CANCELLED"]
    /\ UNCHANGED <<settings, now, subscriptions, calls>>

\* BillingService.cancel_subscription
CancelSubscription(parent_telegram_id) ==
    IF parent_telegram_id \notin RegisteredParents THEN Completed(Bool(FALSE), subscriptions, payments)
    ELSE LET rows == ActiveSubscriptions(parent_telegram_id) IN
         IF Cardinality(rows) > 1 THEN Raised("MultipleResultsFound")
         ELSE IF rows = {} THEN Completed(Bool(FALSE), subscriptions, payments)
         ELSE LET j == CHOOSE j \in rows : TRUE
              IN  Completed(Bool(TRUE),
                            [subscriptions EXCEPT ![j].status = "CANCELLED",
                                                  ![j].cancelled_at = now,
                                                  ![j].auto_renew = FALSE],
                            payments)

\* BillingService.get_subscription_grace_period
GetSubscriptionGracePeriod(parent_telegram_id) ==
    IF parent_telegram_id \notin RegisteredParents THEN Completed(Bool(FALSE), subscriptions, payments)
    ELSE LET rows == ActiveSubscriptions(parent_telegram_id) IN
         IF Cardinality(rows) > 1 THEN Raised("MultipleResultsFound")
         ELSE IF rows = {} THEN Completed(Bool(FALSE), subscriptions, payments)
         ELSE LET subscription == subscriptions[CHOOSE j \in rows : TRUE]
                  days_expired == WholeDays(subscription.expires_at, now)
              IN  IF subscription.expires_at > now
                  THEN Completed(Bool(FALSE), subscriptions, payments)
                  ELSE Completed(Bool(0 < days_expired /\ days_expired <= 3), subscriptions, payments)

\* BillingService.expire_old_subscriptions
ExpireOldSubscriptions ==
    LET expired_subs == GetExpired
        flipped == {j \in expired_subs : WholeDays(subscriptions[j].expires_at, now) > 3}
    IN  Completed(Count(Cardinality(flipped)),
                  [j \in DOMAIN subscriptions |->
                      IF j \in flipped THEN [subscriptions[j] EXCEPT !.status = "EXPIRED"]
                      ELSE subscriptions[j]],
                  payments)

\* BillingService.activate_subscription; Payment has no attribute subscription_id, and
\* get_session rolls mark_success back when reading it raises
ActivateSubscription(payment_id) ==
    IF payment_id \notin DOMAIN payments THEN Completed(Bool(FALSE), subscriptions, payments)
    ELSE IF payments[payment_id].status = "SUCCESS" THEN Completed(Bool(TRUE), subscriptions, payments)
    ELSE LET paid == [payments EXCEPT ![payment_id].status = "SUCCESS"] IN
         IF "subscription_id" \notin DOMAIN payments[payment_id]
         THEN Raised("AttributeError")
         ELSE IF payments[payment_id].subscription_id \in DOMAIN subscriptions
         THEN Completed(Bool(TRUE),
                        [subscriptions EXCEPT ![payments[payment_id].subscription_id].status =
                                                    "ACTIVE"],
                        paid)
         ELSE Completed(Bool(TRUE), subscriptions, paid)

\* A service call runs in one step; slot 1 holds the last one with what it gave
Serve(op, input, r) ==
    /\ subscriptions' = r.subscriptions
    /\ payments' = r.payments
    /\ calls' = [calls EXCEPT ![1] =
            [pc |-> "answered", op |-> op, in |-> input,
             out |-> [raised |-> r.raised, value |-> r.value],
             paid |-> MovedTo(payments, r.payments, "SUCCESS"),
             activated |-> MovedTo(subscriptions, r.subscriptions, "ACTIVE")]]
    /\ UNCHANGED <<settings, now>>

ServeCancelSubscription(parent_telegram_id) ==
    Serve("cancel_subscription", [parent_telegram_id |-> parent_telegram_id],
          CancelSubscription(parent_telegram_id))

ServeGetSubscriptionGracePeriod(parent_telegram_id) ==
    Serve("get_subscription_grace_period", [parent_telegram_id |-> parent_telegram_id],
          GetSubscriptionGracePeriod(parent_telegram_id))

ServeExpireOldSubscriptions ==
    Serve("expire_old_subscriptions", NoValue, ExpireOldSubscriptions)

ServeActivateSubscription(payment_id) ==
    Serve("activate_subscription", [payment_id |-> payment_id],
          ActivateSubscription(payment_id))

\* BillingService.check_subscription_status, which changes nothing
ServeCheckSubscriptionStatus(parent_telegram_id) ==
    /\ calls' = [calls EXCEPT ![1] =
            [pc |-> "answered", op |-> "check_subscription_status",
             in |-> [parent_telegram_id |-> parent_telegram_id],
             out |-> CheckSubscriptionStatus(parent_telegram_id),
             paid |-> {}, activated |-> {}]]
    /\ UNCHANGED <<settings, now, subscriptions, payments>>

\* Time passes, half a day at a time
Elapse ==
    /\ now < Days(MaxDays)
    /\ now' = now + 1
    /\ UNCHANGED <<settings, subscriptions, payments, calls>>

LedgerSettings ==
    [payme_merchant_id |-> MerchantId, payme_secret_key |-> PaymeSecret,
     click_merchant_id |-> MerchantId, click_service_id |-> ServiceId,
     click_secret_key |-> ClickSecret]

LedgerInit == settings = LedgerSettings /\ InitStore

\* The repositories called directly, which sets the rows up before time runs
LedgerSetup ==
    /\ now = 0
    /\ \/ \E d \in DurationDays : LedgerCreate(1, "monthly", d)
       \/ PaymentCreate(1, <<"sub_1_0">>, "CLICK", TARIFFS["monthly"][2])
       \/ \E j \in 1..MaxSubscriptions : SubscriptionActivate(j)
       \/ \E j \in 1..MaxSubscriptions : SubscriptionCancel(j)
       \/ \E j \in 1..MaxSubscriptions : SubscriptionExpire(j)
       \/ \E i \in 1..MaxPayments : PaymentMarkSuccess(i)
       \/ \E i \in 1..MaxPayments : PaymentMarkFailed(i)
       \/ \E i \in 1..MaxPayments : PaymentMarkCancelled(i)

LedgerNext ==
    \/ LedgerSetup
    \/ \E o \in TelegramIds : ServeCancelSubscription(o)
    \/ \E o \in TelegramIds : ServeGetSubscriptionGracePeriod(o)
    \/ \E o \in TelegramIds : ServeCheckSubscriptionStatus(o)
    \/ ServeExpireOldSubscriptions
    \/ \E i \in 1..MaxPayments : ServeActivateSubscription(i)
    \/ Elapse

SpecLedger == LedgerInit /\ [][LedgerNext]_vars

-----------------------------------------------------------------------------
(* Ledger claims *)

\* C15: in_grace_period(owner) is true when the owner's most recent subscription, still
\* ACTIVE, has expires_at in the past by no more than 3 days, and false when it expired
\* more than 3 days ago or has not expired yet.
C15_GracePeriod ==
    [][\A o \in RegisteredParents :
        (ServeGetSubscriptionGracePeriod(o) /\ MostRecent(o) # 0
            /\ subscriptions[MostRecent(o)].status = "ACTIVE")
        => LET expired_for == now - subscriptions[MostRecent(o)].expires_at
           IN  /\ calls'[1].out.raised = ""
               /\ calls'[1].out.value = Bool(0 < expired_for /\ expired_for <= Days(3))]_vars

\* C16: the daily sweep flips an ACTIVE subscription to EXPIRED if and only if
\* now - expires_at is more than 3 days, by any fraction of a day; the others stay
\* ACTIVE, and the count it returns is the number of subscriptions it flipped.
C16_SweepExpiresPastGrace ==
    [][ServeExpireOldSubscriptions
        => /\ \A j \in DOMAIN subscriptions :
                subscriptions[j].status = "ACTIVE"
                => subscriptions'[j].status =
                        IF now - subscriptions[j].expires_at > Days(3)
                        THEN "EXPIRED" ELSE "ACTIVE"
           /\ calls'[1].out.value =
                Count(Cardinality({j \in DOMAIN subscriptions :
                                    /\ subscriptions[j].status = "ACTIVE"
                                    /\ subscriptions'[j].status = "EXPIRED"}))]_vars

\* C19: once an owner has cancelled the active subscription, auto_renew is false,
\* cancelled_at is set, and check_access(owner) is still active before expires_at.
C19_CancelKeepsAccess ==
    [][\A o \in RegisteredParents :
        (ServeCancelSubscription(o) /\ calls'[1].out.value = Bool(TRUE))
        => \E j \in DOMAIN subscriptions :
            /\ subscriptions[j].status = "ACTIVE"
            /\ subscriptions'[j].status = "CANCELLED"
            /\ ~subscriptions'[j].auto_renew
            /\ subscriptions'[j].cancelled_at = now
            /\ now < subscriptions'[j].expires_at
                => LET access == CheckSubscriptionStatus(o)'
                   IN  access.raised = "" /\ access.active]_vars

\* C20: under every sequence of ledger operations the status of a Subscription moves only
\* PENDING to ACTIVE and ACTIVE to EXPIRED or CANCELLED: EXPIRED and CANCELLED are
\* final, and PENDING never becomes EXPIRED or CANCELLED.
C20_StatusTransitions ==
    [][\A j \in DOMAIN subscriptions :
        subscriptions'[j].status # subscriptions[j].status
        => <<subscriptions[j].status, subscriptions'[j].status>> \in
                {<<"PENDING", "ACTIVE">>, <<"ACTIVE", "EXPIRED">>, <<"ACTIVE", "CANCELLED">>}]_vars

\* C21: under every sequence of payment operations (create, mark_success, mark_failed,
\* mark_cancelled) the status of a Payment moves only PENDING to SUCCESS, FAILED or
\* CANCELLED, and to REFUNDED only from SUCCESS: a SUCCESS payment never becomes FAILED
\* or CANCELLED, and a FAILED or CANCELLED one never becomes SUCCESS.
C21_PaymentStatusTransitions ==
    [][\A i \in DOMAIN payments :
        payments'[i].status # payments[i].status
        => <<payments[i].status, payments'[i].status>> \in
                {<<"PENDING", "SUCCESS">>, <<"PENDING", "FAILED">>,
                 <<"PENDING", "CANCELLED">>, <<"SUCCESS", "REFUNDED">>}]_vars

\* C22: in every reachable state each owner has at most one Subscription that is ACTIVE
\* with expires_at in the future, also after several subscriptions were started and
\* activated, so that get_active(owner) has a single answer.
C22_OneActivePerOwner ==
    \A o \in RegisteredParents : Cardinality(ActiveSubscriptions(o)) <= 1

\* Payment has no column naming a subscription (models.py): the payments of a
\* subscription are taken to be those of its owner
Linked(i, j) == payments[i].parent_id = subscriptions[j].parent_id

\* C23: a Subscription is ACTIVE, or in a status reached from ACTIVE, only if some Payment
\* linked to it is SUCCESS: no sequence of operations activates a subscription whose
\* payment is PENDING, FAILED or CANCELLED.
C23_ActiveNeedsPaidPayment ==
    \A j \in DOMAIN subscriptions :
        subscriptions[j].status = "ACTIVE"
        => \E i \in DOMAIN payments : Linked(i, j) /\ payments[i].status = "SUCCESS"

\* C24: check_access(owner) reports active = true exactly when the owner has a
\* Subscription that is ACTIVE with expires_at > now: one that is ACTIVE but past its
\* expires_at, and a PENDING one, give active = false, and days_left is never negative.
C24_CheckAccess ==
    [][\A o \in RegisteredParents :
        ServeCheckSubscriptionStatus(o)
        => LET access == calls'[1].out
           IN  /\ access.raised = ""
               /\ access.active =
                    (\E j \in DOMAIN subscriptions :
                        /\ subscriptions[j].parent_id = o
                        /\ subscriptions[j].status = "ACTIVE"
                        /\ subscriptions[j].expires_at > now)
               /\ access.days_left >= 0]_vars

-----------------------------------------------------------------------------
(* PayMe transactions: CreateTransaction and CancelTransaction of the Merchant API *)

\* The ids PayMe gives its transactions; an order is named by Payment.transaction_id
PaymeIds == {<<"p1">>, <<"p2">>}

\* CreateTransaction of PayMe transaction id for the order account.order_id
RpcCreate(id, order_id) ==
    [json |-> "object",
     value |-> [jsonrpc |-> "2.0", id |-> <<"7">>, method |-> <<"CreateTransaction">>,
                params |-> [id |-> id, account |-> [order_id |-> order_id],
                            amount |-> TARIFFS["monthly"][2] * 100]]]

\* The calls PayMe makes about a transaction, with its credentials
PaymeTransactionRequests ==
    {[op |-> "payme_webhook", in |-> PaymeInput(GoodPaymeHeader, RpcCreate(id, o))] :
        id \in PaymeIds, o \in PaymeTransactionIds}
    \cup {[op |-> "payme_webhook",
           in |-> PaymeInput(GoodPaymeHeader, Rpc(<<"CancelTransaction">>, id))] :
            id \in PaymeIds}

PaymeTransactionReceive ==
    \E c \in Slots : \E r \in PaymeTransactionRequests : Receive(c, r.op, r.in)

PaymeTransactionsNext ==
    \/ PaymeOrder
    \/ \E i \in 1..MaxPayments : PaymentMarkSuccess(i)
    \/ PaymeTransactionReceive
    \/ \E c \in Slots : AnswerPaymeWebhook(c)

SpecPayMeTransactions == LedgerInit /\ [][PaymeTransactionsNext]_vars

\* Call c is PayMe's CreateTransaction of transaction id for the order order_id
IsCreate(c, id, order_id) ==
    /\ calls[c].op = "payme_webhook"
    /\ IsRpc(c, <<"CreateTransaction">>)
    /\ calls[c].in.body.value.params.id = id
    /\ calls[c].in.body.value.params.account.order_id = order_id

\* Call c is PayMe's CancelTransaction of transaction id
IsCancel(c, id) ==
    /\ calls[c].op = "payme_webhook"
    /\ IsRpc(c, <<"CancelTransaction">>)
    /\ calls[c].in.body.value.params.id = id

IsRpcResult(out) == out.http = 200 /\ "result" \in DOMAIN out.body

IsRpcError(out) == out.http = 200 /\ "error" \in DOMAIN out.body

\* C25: CreateTransaction is idempotent per order: a repeated call gives the record the
\* first call created (same transaction, state 1), no second transaction is created for
\* an order that has one, and a conflicting request, another transaction id for that
\* order, is answered with an RPC error.
C25_CreateTransactionIdempotent ==
    [][\A a, c \in Slots : \A first, id \in PaymeIds : \A o \in PaymeTransactionIds :
        (/\ \E i \in DOMAIN payments : payments[i].transaction_id = o
         /\ a # c /\ calls[a].pc = "answered" /\ IsCreate(a, first, o)
         /\ IsRpcResult(calls[a].out)
         /\ Answers(c) /\ IsCreate(c, id, o))
        => /\ calls[a].out.body.result.state = 1
           /\ IF id = first
              THEN calls'[c].out.body = calls[a].out.body
              ELSE IsRpcError(calls'[c].out)]_vars

\* Transaction id is known when call c is answered: a CreateTransaction for it was
\* answered with a result before; o is its order
IsKnown(c, id, o) ==
    \E a \in Slots \ {c} :
        calls[a].pc = "answered" /\ IsCreate(a, id, o) /\ IsRpcResult(calls[a].out)

\* C26: CancelTransaction on a known transaction returns state -1 and moves the Payment
\* to CANCELLED when the transaction was not performed, and returns state -2 and moves
\* the Payment to REFUNDED when it was; on an unknown transaction it answers an RPC
\* error and changes nothing.
C26_CancelTransaction ==
    [][\A c \in Slots : \A id \in PaymeIds :
        (Answers(c) /\ IsCancel(c, id))
        => IF \E o \in PaymeTransactionIds : IsKnown(c, id, o)
           THEN \A o \in PaymeTransactionIds : \A i \in DOMAIN payments :
                    (IsKnown(c, id, o) /\ payments[i].transaction_id = o)
                    => /\ IsRpcResult(calls'[c].out)
                       /\ IF payments[i].status = "SUCCESS"
                          THEN /\ calls'[c].out.body.result.state = -2
                               /\ payments'[i].status = "REFUNDED"
                          ELSE /\ calls'[c].out.body.result.state = -1
                               /\ payments'[i].status = "CANCELLED"
           ELSE /\ IsRpcError(calls'[c].out)
                /\ UNCHANGED <<subscriptions, payments>>]_vars

-----------------------------------------------------------------------------
(* PayMe credentials: PayMeProvider.verify_webhook_signature over secrets and headers *)

\* The secrets an operator may configure; the second contains a colon
PaymeSecrets == {PaymeSecret, <<"k", ":", "2">>}

PaymeVerifySettings ==
    {[NoSettings EXCEPT !.payme_merchant_id = m, !.payme_secret_key = k] :
        m \in {None, MerchantId}, k \in {None} \cup PaymeSecrets}

\* The Authorization headers a caller may send
PaymeVerifyHeaders ==
    {BasicAuth(scheme, user, k) :
        scheme \in {"Basic", "basic", "Bearer"}, user \in {"Paycom", "paycom"},
        k \in PaymeSecrets}
    \cup PaymeHeaders

\* payme.verify_webhook_signature(auth_header) of the configured service
ServeVerifyWebhookSignature(auth_header) ==
    /\ calls' = [calls EXCEPT ![1] =
            [pc |-> "answered", op |-> "verify_webhook_signature",
             in |-> [auth_header |-> auth_header],
             out |-> Bool(PayMeVerifyWebhookSignature(BillingServicePayme(settings),
                                                      auth_header)),
             paid |-> {}, activated |-> {}]]
    /\ UNCHANGED <<settings, now, subscriptions, payments>>

PaymeVerifyInit == settings \in PaymeVerifySettings /\ InitStore

PaymeVerifyNext == \E h \in PaymeVerifyHeaders : ServeVerifyWebhookSignature(h)

SpecPayMeVerify == PaymeVerifyInit /\ [][PaymeVerifyNext]_vars

\* The header is a Basic header, the scheme in any case, whose decoded value is exactly
\* "Paycom:" followed by the configured secret
IsPaycomBasic(auth_header) ==
    \E scheme \in {"Basic", "basic"} :
        auth_header = BasicAuth(scheme, "Paycom", settings.payme_secret_key)

\* C27: PayMe verification accepts an Authorization header if and only if it is a Basic
\* header whose decoded value is exactly "Paycom:" followed by the configured secret,
\* for every secret that can be configured; a missing, malformed or non-matching header
\* is rejected, and every header is rejected when PayMe is not configured.
C27_VerifyAcceptsExactlyPaycom ==
    [][\A h \in PaymeVerifyHeaders :
        ServeVerifyWebhookSignature(h)
        => calls'[1].out = Bool(PaymeConfigured /\ IsPaycomBasic(h))]_vars

-----------------------------------------------------------------------------
(* AI client: MentoriumAIClient.trim_messages_to_fit, packages/ai_client client.py *)

MaxMessages == 3
MaxContentTokens == 2
MaxTokens == 16

\* A text is the sequence of tokens the encoding gives it
Texts == {[k \in 1..n |-> "tok"] : n \in 0..MaxContentTokens}

\* MentoriumAIClient.count_tokens
CountTokens(text) == Len(text)

\* The dialogue after the system prompt: messages of the user and the assistant
DialogMessages == [role : {"user", "assistant"}, content : Texts]

SystemMessages == [role : {"system"}, content : Texts]

Dialogs == UNION {[1..n -> DialogMessages] : n \in 0..MaxMessages}

\* The lists generate_reply and the tests pass: a dialogue, with or without a leading
\* system prompt
MessageLists == Dialogs \cup {<<system>> \o d : system \in SystemMessages, d \in Dialogs}

RECURSIVE TrimLoop(_, _, _, _)
\* The loop over reversed(user_messages) from message k down; gives trimmed
TrimLoop(user_messages, k, remaining_tokens, current_tokens) ==
    IF k = 0 THEN <<>>
    ELSE LET msg_tokens == CountTokens(user_messages[k].content) + 4 IN
         IF current_tokens + msg_tokens > remaining_tokens THEN <<>>
         ELSE Append(TrimLoop(user_messages, k - 1, remaining_tokens,
                              current_tokens + msg_tokens),
                     user_messages[k])

\* trim_messages_to_fit that charges the system prompt no tokens
TrimMessagesFreeSystemPrompt(messages, max_tokens) ==
    IF messages = <<>> THEN <<>>
    ELSE LET has_system == messages[1].role = "system"
             user_messages == IF has_system THEN Tail(messages) ELSE messages
             trimmed == TrimLoop(user_messages, Len(user_messages), max_tokens, 0)
         IN  (IF has_system THEN <<messages[1]>> ELSE <<>>) \o trimmed

\* MentoriumAIClient.trim_messages_to_fit
TrimMessagesToFit(messages, max_tokens) ==
    IF messages = <<>> THEN <<>>
    ELSE LET has_system == messages[1].role = "system"
             user_messages == IF has_system THEN Tail(messages) ELSE messages
             system_tokens == IF has_system THEN CountTokens(messages[1].content) ELSE 0
             remaining_tokens == max_tokens - system_tokens
             trimmed == TrimLoop(user_messages, Len(user_messages), remaining_tokens, 0)
         IN  (IF has_system THEN <<messages[1]>> ELSE <<>>) \o trimmed

\* A caller holds a list of messages and a limit
TrimInit ==
    /\ settings = NoSettings
    /\ now = 0
    /\ subscriptions = <<>>
    /\ payments = <<>>
    /\ \E messages \in MessageLists : \E max_tokens \in 0..MaxTokens :
            calls = [c \in Slots |->
                        IF c = 1
                        THEN [Idle EXCEPT !.pc = "received", !.op = "trim_messages_to_fit",
                                          !.in = [messages |-> messages,
                                                  max_tokens |-> max_tokens]]
                        ELSE Idle]

\* trim_messages_to_fit(messages, max_tokens) returns
AnswerTrimMessagesToFit ==
    /\ calls[1].pc = "received" /\ calls[1].op = "trim_messages_to_fit"
    /\ calls' = [calls EXCEPT ![1] =
            [@ EXCEPT !.pc = "answered",
                      !.out = [messages |-> TrimMessagesToFit(calls[1].in.messages,
                                                              calls[1].in.max_tokens)]]]
    /\ UNCHANGED <<settings, now, subscriptions, payments>>

TrimNext == AnswerTrimMessagesToFit

SpecTrim == TrimInit /\ [][TrimNext]_vars

RECURSIVE Cost(_)
\* The tokens a list of messages costs, 4 more than its content for each message
Cost(messages) ==
    IF messages = <<>> THEN 0
    ELSE CountTokens(Head(messages).content) + 4 + Cost(Tail(messages))

\* The last n messages
Suffix(messages, n) == SubSeq(messages, Len(messages) - n + 1, Len(messages))

\* C28: trim_messages_to_fit keeps a leading system message unchanged as the first
\* element whatever max_tokens is, and the rest of the result is the longest suffix of
\* the input's other messages, in their order, whose cost, 4 tokens more than the
\* content for each message, fits in max_tokens less the system message's tokens
\* (nothing when not even the empty suffix fits).
C28_TrimKeepsSystemAndLongestSuffix ==
    (calls[1].pc = "answered" /\ calls[1].op = "trim_messages_to_fit")
    => LET messages == calls[1].in.messages
           max_tokens == calls[1].in.max_tokens
           result == calls[1].out.messages
           leading == messages # <<>> /\ messages[1].role = "system"
           others == IF leading THEN Tail(messages) ELSE messages
           budget == max_tokens - (IF leading THEN CountTokens(messages[1].content) ELSE 0)
           fits == {n \in 0..Len(others) : Cost(Suffix(others, n)) <= budget}
           longest == IF fits = {} THEN 0 ELSE CHOOSE n \in fits : \A k \in fits : k <= n
           kept == IF leading THEN Tail(result) ELSE result
       IN  /\ leading => result # <<>> /\ result[1] = messages[1]
           /\ ~leading => \A k \in DOMAIN result : result[k].role # "system"
           /\ kept = Suffix(others, longest)

\* A list with a leading system message from which part of the dialogue was trimmed
C28_Witness ==
    /\ calls[1].pc = "answered" /\ calls[1].op = "trim_messages_to_fit"
    /\ calls[1].in.messages # <<>> /\ calls[1].in.messages[1].role = "system"
    /\ calls[1].out.messages[1] = calls[1].in.messages[1]
    /\ 1 < Len(calls[1].out.messages)
    /\ Len(calls[1].out.messages) < Len(calls[1].in.messages)

-----------------------------------------------------------------------------
(* Sessions: what a failed or refused service call leaves committed *)

\* C29: start_subscription is all-or-nothing: when a step after the creation of the
\* Subscription fails, as when the creation of the Payment raises, the session is rolled
\* back, and no PENDING Subscription without a Payment of its own stays committed.
C29_StartAllOrNothing ==
    [][\A c \in Slots :
        (Answers(c) /\ calls[c].op = "create_subscription")
        => /\ calls'[c].out.raised # "" => UNCHANGED <<subscriptions, payments>>
           /\ Len(subscriptions') - Len(subscriptions) = Len(payments') - Len(payments)
           /\ \A j \in DOMAIN subscriptions' \ DOMAIN subscriptions :
                \E i \in DOMAIN payments' \ DOMAIN payments : Linked(i, j)']_vars

\* start_subscription for a registered owner and a tariff of the catalog has failed
\* after its Subscription was created, and nothing is committed
C29_Witness ==
    \E c \in Slots :
        /\ Answered(c, "create_subscription")
        /\ IsCatalogStart(c)
        /\ calls[c].out.raised = "TypeError"
        /\ subscriptions = <<>> /\ payments = <<>>

\* C30: whenever activate_subscription(payment_id) returns False, for a payment that is
\* not found or has no linked subscription, no record of the committed store has
\* changed; it returns True only when the Payment is SUCCESS and its linked Subscription
\* is ACTIVE afterwards.
C30_ActivateReturnValue ==
    [][\A i \in 1..MaxPayments :
        ServeActivateSubscription(i)
        => /\ calls'[1].out.value = Bool(FALSE) => UNCHANGED <<subscriptions, payments>>
           /\ calls'[1].out.value = Bool(TRUE)
              => /\ payments'[i].status = "SUCCESS"
                 /\ \E j \in DOMAIN subscriptions' :
                        Linked(i, j)' /\ subscriptions'[j].status = "ACTIVE"]_vars

=============================================================================
